---------------------------- MODULE Spec2Model ----------------------------
(***************************************************************************)
(* A model of the CSB validator: the position indexer, the custom rule     *)
(* evaluator, the external ("trusted node") validator adapter, the report  *)
(* summary, the concurrent batch driver and the HTTP upload endpoint.      *)
(*                                                                         *)
(*   src/csb_validator/validator.py                                        *)
(*   src/csb_validator_api/main.py                                         *)
(***************************************************************************)
EXTENDS Integers, Sequences, FiniteSets, TLC

VARIABLES
    content,           \* extract_feature_line_numbers: the file text, split in lines
    feature_line_map,  \* extract_feature_line_numbers: the map it returned
    scanned,           \* whether extract_feature_line_numbers has run
    file,              \* run_custom_validation: the file on disk
    clock,             \* run_custom_validation: what datetime.now reads, per feature
    outcome,           \* run_custom_validation: what the call produced
    proc,              \* run_trusted_node_validation: the external process's behaviour
    tn_outcome,        \* run_trusted_node_validation: what the call produced
    results,           \* write_report_pdf: the list of (file_path, errors) it is given
    report,            \* write_report_pdf: the summary and rows it renders
    files,             \* main_async: the files of the batch, in input order
    mode,              \* main_async: "crowbar" or "trusted-node"
    tasks,             \* main_async: each per-file coroutine's position and result
    completion,        \* main_async: the tasks in the order in which they finished
    all_results,       \* main_async: what asyncio.gather returned
    main_pc,           \* main_async: its position
    requests,          \* validate_file: each request's position
    tmp_files          \* validate_file: the temporary files that exist on disk

vars == <<content, feature_line_map, scanned, file, clock, outcome, proc,
          tn_outcome, results, report, files, mode, tasks, completion,
          all_results, main_pc, requests, tmp_files>>

indexer_vars == <<content, feature_line_map, scanned>>
custom_vars  == <<file, clock, outcome>>
trusted_vars == <<proc, tn_outcome>>
report_vars  == <<results, report>>
batch_vars   == <<files, mode, tasks, completion, all_results, main_pc>>
api_vars     == <<requests, tmp_files>>

(***************************************************************************)
(* Bounds of the model.                                                    *)
(***************************************************************************)
MaxFeatures == 2     \* features per file
MaxDocFeatures == 2  \* features per file text given to the position indexer
MaxStdoutLines == 2  \* lines the external validator prints
MaxResults == 2      \* per-file results given to the report builder
MaxFindings == 2     \* findings per file given to the report builder
MaxFiles == 2        \* files of a batch
MaxRequests == 2     \* uploads in flight
MaxNow == 2          \* the latest instant the clock reads

(***************************************************************************)
(* Sequence helpers.                                                       *)
(***************************************************************************)
SeqsUpTo(S, n) == UNION {[1..k -> S] : k \in 0..n}

RECURSIVE Concat(_)
Concat(ss) == IF ss = <<>> THEN <<>> ELSE Head(ss) \o Concat(Tail(ss))

Contains(s, x) == \E i \in 1..Len(s) : s[i] = x

(***************************************************************************)
(* extract_feature_line_numbers (validator.py 16-48).                      *)
(*                                                                         *)
(* The text is a sequence of lines, a line a sequence of characters. The   *)
(* characters the scan tells apart are the braces and brackets; "K" stands *)
(* for the substring "features" in quotes, which the scan looks for with   *)
(* `in line`.                                                              *)
(***************************************************************************)
NoPos == 0   \* feature_start_pos = None

ScanInit ==
    [in_features |-> FALSE, feature_index |-> 0, bracket_stack |-> <<>>,
     feature_start_pos |-> NoPos, map |-> <<>>, returned |-> FALSE]

\* One character of a line inside the features array (lines 33-47); i is the
\* 0-based index of the line. The map is a sequence: ordinal k is at k + 1.
ScanChar(st, i, ch) ==
    IF st.returned THEN st
    ELSE IF ch = "{" THEN
        [st EXCEPT !.feature_start_pos =
                      IF st.bracket_stack = <<>> THEN i + 1 ELSE @,
                   !.bracket_stack = Append(@, "{")]
    ELSE IF ch = "}" THEN
        IF st.bracket_stack # <<>> THEN
            LET popped == SubSeq(st.bracket_stack, 1, Len(st.bracket_stack) - 1) IN
            IF popped = <<>> /\ st.feature_start_pos # NoPos
            THEN [st EXCEPT !.bracket_stack = popped,
                            !.map = Append(@, st.feature_start_pos),
                            !.feature_index = @ + 1,
                            !.feature_start_pos = NoPos]
            ELSE [st EXCEPT !.bracket_stack = popped]
        ELSE st
    ELSE IF ch = "]" THEN
        IF st.bracket_stack = <<>> THEN [st EXCEPT !.returned = TRUE] ELSE st
    ELSE st

RECURSIVE ScanChars(_, _, _)
ScanChars(st, i, line) ==
    IF line = <<>> THEN st
    ELSE ScanChars(ScanChar(st, i, Head(line)), i, Tail(line))

\* One iteration of `for i, line in enumerate(lines)` (lines 28-47).
ScanLine(st, i, line) ==
    IF st.returned THEN st
    ELSE IF ~st.in_features /\ Contains(line, "K") /\ Contains(line, "[")
    THEN [st EXCEPT !.in_features = TRUE]      \* continue: the line is dropped
    ELSE IF st.in_features THEN ScanChars(st, i, line)
    ELSE st

RECURSIVE ScanLines(_, _, _)
ScanLines(st, i, lines) ==
    IF lines = <<>> THEN st
    ELSE ScanLines(ScanLine(st, i, Head(lines)), i + 1, Tail(lines))

extract_feature_line_numbers(lines) == ScanLines(ScanInit, 0, lines).map


(***************************************************************************)
(* Files. A file on disk is                                                *)
(*   kind "unreadable": open or the UTF-8 decode of read raises;           *)
(*   kind "text":       readable text that json.loads rejects: the text of *)
(*                      a collection with a syntax error in it;            *)
(*   kind "json_other": valid JSON whose top level is not an object;       *)
(*   kind "collection": a JSON object with a "features" array, feats, laid *)
(*                      out in lines by layout, the set of token gaps that *)
(*                      hold a line break.                                 *)
(***************************************************************************)
\* The text of one feature: its opening brace, its geometry object with the
\* coordinates array, its closing brace.
FeatureTokens == << <<"{">>, <<"{", "[", "]", "}">>, <<"}">> >>

\* The text of a collection of n features, as tokens that a line break may
\* separate: the document's brace, the "features" key with its '[', the
\* features, the closing ']' and '}'.
DocTokens(n) ==
    << <<"{">>, <<"K", "[">> >> \o Concat([k \in 1..n |-> FeatureTokens])
       \o << <<"]">>, <<"}">> >>

Gaps(n) == 1..(Len(DocTokens(n)) - 1)

\* The 1-based line of token t under a layout.
LineOf(t, layout) == 1 + Cardinality({g \in layout : g < t})

\* The token that opens feature k (0-based).
OpenToken(k) == 2 + Len(FeatureTokens) * k + 1

SplitLines(tokens, layout) ==
    [j \in 1..(1 + Cardinality(layout \cap (1..(Len(tokens) - 1)))) |->
        LET on == {t \in 1..Len(tokens) : LineOf(t, layout) = j}
            lo == CHOOSE t \in on : \A u \in on : t <= u
            hi == CHOOSE t \in on : \A u \in on : u <= t
        IN  Concat(SubSeq(tokens, lo, hi))]

\* content.splitlines() of what f.read() returns (lines 17-20).
FileText(f) ==
    IF f.kind \in {"collection", "text"}
    THEN SplitLines(DocTokens(Len(f.feats)), f.layout)
    ELSE << <<"[">>, <<"]">> >>

(***************************************************************************)
(* JSON values of a feature. A value is [t, v]:                            *)
(*   "null" None or absent, "num" the number v, "numstr" a string that     *)
(*   float() reads as v, "str" any other non-empty string, "list" a list.  *)
(* Coordinates are [t, items]: "absent" (no geometry, or no coordinates    *)
(* key: the default []), "null", "str" (a non-empty string), "list".       *)
(* A time is [t, form, date, tod]: "null" absent, "empty" the string "",   *)
(* "num" a non-zero number, "str" a string whose first 10 characters are   *)
(* the date and whose form is                                              *)
(*   "garbage" not ISO 8601, "naive" no UTC offset, "offset" ending in     *)
(*   +00:00, "Z" ending in Z.                                              *)
(***************************************************************************)
Null == [t |-> "null", v |-> 0]
Num(n) == [t |-> "num", v |-> n]
NumStr(n) == [t |-> "numstr", v |-> n]
Str == [t |-> "str", v |-> 0]
List == [t |-> "list", v |-> 0]

Coords(items) == [t |-> "list", items |-> items]
NoCoords(t) == [t |-> t, items |-> <<>>]

NoTime(t) == [t |-> t, form |-> "", date |-> 0, tod |-> 0]
TimeStr(form, date, tod) == [t |-> "str", form |-> form, date |-> date, tod |-> tod]

DayLen == 2   \* instants per day of the model's calendar

\* The instant an aware timestamp denotes.
Instant(ts) == ts.date * DayLen + ts.tod

(***************************************************************************)
(* Findings: {"file", "feature", "error"} (lines 66-70 and alike).         *)
(***************************************************************************)
NALabel == [t |-> "N/A", n |-> 0]
LineLabel(n) == [t |-> "line", n |-> n]

NoArg == [t |-> "none"]
Finding(path, label, text, arg) ==
    [file |-> path, feature |-> label, error |-> [text |-> text, arg |-> arg]]

\* line_map.get(i, "N/A") then str(line_number) (lines 62, 68).
Label(line_map, i) == IF i + 1 <= Len(line_map) THEN LineLabel(line_map[i + 1]) ELSE NALabel

(***************************************************************************)
(* The checks of one feature (lines 60-152). Each stage gives the findings *)
(* it appends and the exception that leaves it, "none" when none does.     *)
(***************************************************************************)
Ok(errors) == [errors |-> errors, exc |-> "none"]
Raise(exc) == [errors |-> <<>>, exc |-> exc]

\* Run stage s after r, unless r raised.
Chain(r, s) ==
    IF r.exc # "none" THEN r ELSE [errors |-> r.errors \o s.errors, exc |-> s.exc]

\* `not coords or not isinstance(coords, list) or len(coords) < 2` (line 64)
InvalidGeometry(coords) ==
    \/ coords.t \in {"absent", "null"}
    \/ coords.t = "list" /\ coords.items = <<>>
    \/ coords.t # "list"
    \/ Len(coords.items) < 2

\* `x is None or x < lo or x > hi` (lines 75, 83): ordering a string or a
\* list against a number raises TypeError.
BoundsCheck(path, label, text, x, lo, hi) ==
    IF x.t = "null" THEN Ok(<<Finding(path, label, text, x)>>)
    ELSE IF x.t # "num" THEN Raise("TypeError")
    ELSE IF x.v < lo \/ x.v > hi THEN Ok(<<Finding(path, label, text, x)>>)
    ELSE Ok(<<>>)

\* lines 92-100
DepthCheck(path, label, props) ==
    IF props.depth.t = "null"
    THEN Ok(<<Finding(path, label, "Depth cannot be blank", NoArg)>>)
    ELSE Ok(<<>>)

\* lines 102-121: float() of a list raises TypeError, which the handler for
\* ValueError does not catch.
HeadingCheck(path, label, props) ==
    LET heading == props.heading IN
    IF heading.t = "null" THEN Ok(<<>>)
    ELSE IF heading.t = "list" THEN Raise("TypeError")
    ELSE IF heading.t = "str"
    THEN Ok(<<Finding(path, label, "Heading is not a valid number", heading)>>)
    ELSE IF heading.v < 0 \/ heading.v > 360
    THEN Ok(<<Finding(path, label, "Heading out of bounds", heading)>>)
    ELSE Ok(<<>>)

\* lines 123-152. `not time_str` is true of None and of "". Inside the try,
\* a number has no replace (AttributeError), fromisoformat rejects a string
\* that is not ISO 8601 (ValueError), and `timestamp > now` raises TypeError
\* for a timestamp without UTC offset, now being offset-aware: `except
\* Exception` turns all three into the invalid-timestamp finding.
TimestampCheck(path, label, props, now) ==
    LET time_str == props.time IN
    IF time_str.t \in {"null", "empty"}
    THEN Ok(<<Finding(path, label, "Timestamp cannot be blank", NoArg)>>)
    ELSE IF time_str.t # "str" \/ time_str.form = "garbage" \/ time_str.form = "naive"
    THEN Ok(<<Finding(path, label, "Invalid ISO 8601 timestamp", time_str)>>)
    ELSE IF Instant(time_str) > now
    THEN Ok(<<Finding(path, label, "Timestamp should be in the past",
                      [t |-> "date", date |-> time_str.date])>>)
    ELSE Ok(<<>>)

\* One iteration of the loop over the features (lines 60-152).
CheckFeature(path, label, feature, now) ==
    LET coords == feature.coords
        props == feature.props
    IN  IF InvalidGeometry(coords)
        THEN Ok(<<Finding(path, label, "Invalid geometry coordinates", NoArg)>>)  \* continue
        ELSE Chain(Chain(Chain(Chain(
                BoundsCheck(path, label, "Longitude out of bounds", coords.items[1], -180, 180),
                BoundsCheck(path, label, "Latitude out of bounds", coords.items[2], -90, 90)),
                DepthCheck(path, label, props)),
                HeadingCheck(path, label, props)),
                TimestampCheck(path, label, props, now))

\* The loop of lines 59-152 from feature i (1-based) on; clk[i] is what
\* datetime.now reads in iteration i.
RECURSIVE EvalFeatures(_, _, _, _, _)
EvalFeatures(path, feats, i, line_map, clk) ==
    IF i > Len(feats) THEN Ok(<<>>)
    ELSE Chain(CheckFeature(path, Label(line_map, i - 1), feats[i], clk[i]),
               EvalFeatures(path, feats, i + 1, line_map, clk))

\* json.loads(content) and data.get("features", []) (lines 57, 59): the
\* exception they raise, "none" when they give the features.
json_loads(f) ==
    IF f.kind = "text" THEN "JSONDecodeError"
    ELSE IF f.kind = "json_other" THEN "AttributeError"
    ELSE "none"

\* The handler, were it to label its finding like the findings of the loop.
ParseFailure_line_label(path, exc) ==
    Finding(path, LineLabel(1), "Failed to parse JSON", [t |-> "exception", name |-> exc])

\* The handler of lines 154-161.
ParseFailure(path, exc) ==
    Finding(path, NALabel, "Failed to parse JSON", [t |-> "exception", name |-> exc])

\* run_custom_validation (lines 51-163): raised names the exception that
\* leaves the call, "none" when it returns (file_path, errors).
run_custom_validation(path, f, clk) ==
    IF f.kind = "unreadable"
    THEN [raised |-> "OSError", file |-> path, errors |-> <<>>]   \* line 52, outside the try
    ELSE
        LET line_map == extract_feature_line_numbers(FileText(f))
            r == IF json_loads(f) # "none" THEN Raise(json_loads(f))
                 ELSE EvalFeatures(path, f.feats, 1, line_map, clk)
        IN  [raised |-> "none", file |-> path,
             errors |-> IF r.exc = "none" THEN r.errors
                        ELSE Append(r.errors, ParseFailure(path, r.exc))]


(***************************************************************************)
(* Idle components: a specification of one component leaves the others in  *)
(* these states.                                                           *)
(***************************************************************************)
NoFile == [kind |-> "none", feats |-> <<>>, layout |-> {}]
NoOutcome == [raised |-> "not run", file |-> "", errors |-> <<>>]
NoProc == [started |-> FALSE, returncode |-> 0, decodes |-> TRUE, stdout |-> <<>>]
NoReport == [written |-> FALSE]

IdleIndexer == content = <<>> /\ feature_line_map = <<>> /\ scanned = FALSE
IdleCustom  == file = NoFile /\ clock = <<>> /\ outcome = NoOutcome
IdleTrusted == proc = NoProc /\ tn_outcome = NoOutcome
IdleReport  == results = <<>> /\ report = NoReport
IdleBatch   == files = <<>> /\ mode = "" /\ tasks = <<>> /\ completion = <<>>
               /\ all_results = <<>> /\ main_pc = "idle"
IdleApi     == requests = <<>> /\ tmp_files = {}

(***************************************************************************)
(* The position indexer alone: every layout of a well-formed collection of *)
(* up to MaxDocFeatures features.                                          *)
(***************************************************************************)
PlainFeature ==
    [coords |-> Coords(<<Num(0), Num(0)>>),
     props |-> [depth |-> Num(1), heading |-> Null, time |-> TimeStr("Z", 0, 0)]]

IndexerFiles ==
    UNION {{[kind |-> "collection", feats |-> [i \in 1..n |-> PlainFeature],
             layout |-> l] : l \in SUBSET Gaps(n)} : n \in 0..MaxDocFeatures}

InitIndexer ==
    /\ file \in IndexerFiles
    /\ clock = <<>> /\ outcome = NoOutcome
    /\ IdleIndexer /\ IdleTrusted /\ IdleReport /\ IdleBatch /\ IdleApi

\* A call of extract_feature_line_numbers on the file.
ExtractFeatureLineNumbers ==
    /\ ~scanned
    /\ file.kind # "unreadable"
    /\ content' = FileText(file)
    /\ feature_line_map' = extract_feature_line_numbers(FileText(file))
    /\ scanned' = TRUE
    /\ UNCHANGED <<custom_vars, trusted_vars, report_vars, batch_vars, api_vars>>

NextIndexer == ExtractFeatureLineNumbers

SpecIndexer == InitIndexer /\ [][NextIndexer]_vars

\* C8: every ordinal k the indexer records is the ordinal of a feature of the
\* file, and is mapped to the 1-based line on which that feature's enclosing
\* object opens, wherever the first feature's '{' is placed.
C8_OrdinalsMapToOpeningLines ==
    scanned =>
        \A k \in 1..Len(feature_line_map) :
            /\ k <= Len(file.feats)
            /\ feature_line_map[k] = LineOf(OpenToken(k - 1), file.layout)

\* The indexer is right about the files that break the line after the '[' of
\* the "features" key: it then records every feature, each on its line.
IndexerRightOffKeyLine ==
    (scanned /\ 2 \in file.layout) =>
        /\ Len(feature_line_map) = Len(file.feats)
        /\ \A k \in 1..Len(feature_line_map) :
              feature_line_map[k] = LineOf(OpenToken(k - 1), file.layout)


(***************************************************************************)
(* run_custom_validation on one file.                                      *)
(***************************************************************************)
Path == "a.geojson"

\* What datetime.now reads in the n iterations of a run: it starts at some
\* instant and does not go back.
Clocks(n) ==
    {c \in [1..n -> 0..MaxNow] : \A i \in 1..n : \A j \in 1..n : i <= j => c[i] <= c[j]}

\* A call of run_custom_validation on the file.
RunCustomValidation ==
    /\ outcome = NoOutcome
    /\ outcome' = run_custom_validation(Path, file, clock)
    /\ UNCHANGED <<file, clock, indexer_vars, trusted_vars, report_vars, batch_vars,
                   api_vars>>

NextCustom == RunCustomValidation

\* The layouts of n features used when the rules are what is looked at: a
\* line break at every gap, and the same with the first feature opening on
\* the line of the "features" key.
RuleLayouts(n) == {Gaps(n), Gaps(n) \ {2}}

(***************************************************************************)
(* SpecFeature: files of one feature, over every kind of value of its      *)
(* coordinates, depth, heading and time.                                   *)
(***************************************************************************)
LonValues == {Null, Str, Num(-181), Num(-180), Num(180), Num(181)}
LatValues == {Null, List, Num(-91), Num(90), Num(91)}

FeatureCoords ==
    {NoCoords("absent"), NoCoords("null"), NoCoords("str"), Coords(<<>>),
     Coords(<<Num(0)>>)}
    \cup {Coords(<<lon, Num(0)>>) : lon \in LonValues}
    \cup {Coords(<<Num(0), lat>>) : lat \in LatValues}

FeatureDepths == {Null, Num(1)}
FeatureHeadings == {Null, Num(-1), Num(0), Num(360), Num(361), NumStr(12), Str, List}
FeatureTimes ==
    {NoTime("null"), NoTime("empty"), NoTime("num")}
    \cup {TimeStr(form, d, s) : form \in {"garbage", "naive", "offset", "Z"},
                                d \in 0..1, s \in 0..(DayLen - 1)}

Features(C, D, H, T) ==
    {[coords |-> c, props |-> [depth |-> d, heading |-> h, time |-> t]] :
        c \in C, d \in D, h \in H, t \in T}

InitFeature ==
    /\ file \in {[kind |-> "collection", feats |-> <<ft>>, layout |-> Gaps(1)] :
                    ft \in Features(FeatureCoords, FeatureDepths, FeatureHeadings,
                                    FeatureTimes)}
    /\ clock \in Clocks(1)
    /\ outcome = NoOutcome
    /\ IdleIndexer /\ IdleTrusted /\ IdleReport /\ IdleBatch /\ IdleApi

SpecFeature == InitFeature /\ [][NextCustom]_vars

Ran == outcome.raised # "not run"
Returned == outcome.raised = "none"

\* The texts of the findings of the outcome.
HasError(text, arg) ==
    \E k \in 1..Len(outcome.errors) :
        outcome.errors[k].error = [text |-> text, arg |-> arg]
HasText(text) ==
    \E k \in 1..Len(outcome.errors) : outcome.errors[k].error.text = text

\* C5: a feature with invalid coordinates yields 'Invalid geometry
\* coordinates' and no longitude or latitude finding, and its depth, heading
\* and timestamp checks still emit their findings.
C5_InvalidGeometrySkipsOnlyLonLat ==
    (Ran /\ file.kind = "collection" /\ Len(file.feats) = 1
         /\ InvalidGeometry(file.feats[1].coords)) =>
        LET props == file.feats[1].props IN
        /\ HasText("Invalid geometry coordinates")
        /\ ~HasText("Longitude out of bounds") /\ ~HasText("Latitude out of bounds")
        /\ props.depth.t = "null" => HasText("Depth cannot be blank")
        /\ props.heading.t = "str" => HasText("Heading is not a valid number")
        /\ props.time.t \in {"null", "empty"} => HasText("Timestamp cannot be blank")

\* What the code does instead: the feature yields that one finding only.
InvalidGeometrySkipsAllChecks ==
    (Ran /\ file.kind = "collection" /\ Len(file.feats) = 1
         /\ InvalidGeometry(file.feats[1].coords)) =>
        outcome.errors = <<Finding(Path, LineLabel(LineOf(OpenToken(0), file.layout)),
                                   "Invalid geometry coordinates", NoArg)>>

\* A time value that parses as ISO 8601 once a 'Z' is read as +00:00.
Parses(ts) == ts.t = "str" /\ ts.form \in {"naive", "offset", "Z"}

\* The feature's checks before the timestamp check raise nothing.
ReachesTimestampCheck(ft) ==
    /\ ~InvalidGeometry(ft.coords)
    /\ ft.coords.items[1].t \in {"null", "num"}
    /\ ft.coords.items[2].t \in {"null", "num"}
    /\ ft.props.heading.t # "list"

\* C7: for a time that is present and non-empty, 'Timestamp should be in the
\* past: <date>' is emitted exactly when the value parses and is later than
\* now (a timestamp without offset read as UTC), 'Invalid ISO 8601 timestamp:
\* <raw value>' exactly when it does not parse, and nothing otherwise.
C7_TimestampFindings ==
    (Ran /\ file.kind = "collection" /\ Len(file.feats) = 1
         /\ ReachesTimestampCheck(file.feats[1])
         /\ file.feats[1].props.time.t \notin {"null", "empty"}) =>
        LET ts == file.feats[1].props.time IN
        /\ HasError("Timestamp should be in the past", [t |-> "date", date |-> ts.date])
              <=> (Parses(ts) /\ Instant(ts) > clock[1])
        /\ HasText("Timestamp should be in the past")
              <=> (Parses(ts) /\ Instant(ts) > clock[1])
        /\ HasError("Invalid ISO 8601 timestamp", ts) <=> ~Parses(ts)
        /\ HasText("Invalid ISO 8601 timestamp") <=> ~Parses(ts)
        /\ ~HasText("Timestamp cannot be blank")

\* The same holds of the code for the timestamps that carry a UTC offset.
TimestampFindingsWithOffset ==
    (Ran /\ file.kind = "collection" /\ Len(file.feats) = 1
         /\ ReachesTimestampCheck(file.feats[1])
         /\ file.feats[1].props.time.t \notin {"null", "empty"}
         /\ file.feats[1].props.time.form # "naive") =>
        LET ts == file.feats[1].props.time IN
        /\ HasError("Timestamp should be in the past", [t |-> "date", date |-> ts.date])
              <=> (Parses(ts) /\ Instant(ts) > clock[1])
        /\ HasError("Invalid ISO 8601 timestamp", ts) <=> ~Parses(ts)


(***************************************************************************)
(* SpecCustom: files of every kind, the collections of up to MaxFeatures   *)
(* features, in two layouts, under every clock.                            *)
(***************************************************************************)
CustomFeatures ==
    Features({NoCoords("absent"), Coords(<<Num(0), Num(0)>>), Coords(<<Str, Num(0)>>)},
             {Null}, {Null, List}, {NoTime("null"), TimeStr("Z", 0, 1)})

Collections(n) ==
    {[kind |-> "collection", feats |-> fs, layout |-> l] :
        fs \in [1..n -> CustomFeatures], l \in RuleLayouts(n)}

OtherFile(kind) == [kind |-> kind, feats |-> <<>>, layout |-> {}]

\* The text of a collection, broken so that json.loads rejects it.
Malformed(f) == [f EXCEPT !.kind = "text"]

CustomFiles ==
    {OtherFile("unreadable"), OtherFile("json_other")}
    \cup UNION {Collections(n) : n \in 0..MaxFeatures}
    \cup {Malformed(f) : f \in UNION {Collections(n) : n \in 0..MaxFeatures}}

InitCustom ==
    /\ file \in CustomFiles
    /\ clock \in Clocks(Len(file.feats))
    /\ outcome = NoOutcome
    /\ IdleIndexer /\ IdleTrusted /\ IdleReport /\ IdleBatch /\ IdleApi

SpecCustom == InitCustom /\ [][NextCustom]_vars

OwnFindings(i) ==
    CheckFeature(Path, Label(extract_feature_line_numbers(FileText(file)), i - 1),
                 file.feats[i], clock[i]).errors

\* C10: for a file that parses as a feature collection, the findings are the
\* in-order concatenation of each feature's own findings: a value of
\* unexpected type in one feature neither suppresses the checks of the later
\* features nor adds a 'Failed to parse JSON' finding.
C10_FindingsArePerFeature ==
    (Ran /\ file.kind = "collection") =>
        /\ Returned
        /\ outcome.errors = Concat([i \in 1..Len(file.feats) |-> OwnFindings(i)])
        /\ ~HasText("Failed to parse JSON")

\* The loop does concatenate the features' findings in order when no value is
\* of a type the comparisons or float() reject.
WellTyped(ft) ==
    InvalidGeometry(ft.coords) \/ ReachesTimestampCheck(ft)

FindingsArePerFeatureWhenWellTyped ==
    (Ran /\ file.kind = "collection" /\ \A i \in 1..Len(file.feats) : WellTyped(file.feats[i])) =>
        outcome.errors = Concat([i \in 1..Len(file.feats) |-> OwnFindings(i)])


(***************************************************************************)
(* run_trusted_node_validation (validator.py 166-209). The external        *)
(* process is what the environment makes of it: whether it starts, its     *)
(* exit status, whether its stdout decodes as UTF-8, and the lines of its  *)
(* stdout. Of a line the code reads whether it contains "Path:", whether   *)
(* it contains "error:", and the text after the first "error:", stripped.  *)
(***************************************************************************)
StdoutLines ==
    {[path |-> FALSE, error |-> FALSE, msg |-> ""],
     [path |-> TRUE,  error |-> FALSE, msg |-> ""],
     [path |-> FALSE, error |-> TRUE,  msg |-> "m1"],
     [path |-> TRUE,  error |-> TRUE,  msg |-> "m1"],
     [path |-> TRUE,  error |-> TRUE,  msg |-> ""]}

Structured(line) == line.path /\ line.error

\* The loop of lines 188-198.
RECURSIVE ParseStdout(_, _)
ParseStdout(path, lines) ==
    IF lines = <<>> THEN <<>>
    ELSE (IF Structured(Head(lines))
          THEN <<Finding(path, NALabel, Head(lines).msg, NoArg)>>
          ELSE <<>>) \o ParseStdout(path, Tail(lines))

\* Line 199, were it `return file_path, errors`.
OrUnstructured_dropped(path, errors) == errors

\* `errors or [{... "Unstructured error"}]` (lines 199-201)
OrUnstructured(path, errors) ==
    IF errors # <<>> THEN errors
    ELSE <<Finding(path, NALabel, "Unstructured error", NoArg)>>

\* The handler of lines 202-209.
SubprocessError(path, exc) ==
    <<Finding(path, NALabel, "Subprocess error", [t |-> "exception", name |-> exc])>>

run_trusted_node_validation(path, p) ==
    [raised |-> "none", file |-> path,
     errors |->
        IF ~p.started THEN SubprocessError(path, "FileNotFoundError")   \* line 174 raises
        ELSE IF p.returncode = 0 THEN <<>>                              \* lines 179-183
        ELSE IF ~p.decodes THEN SubprocessError(path, "UnicodeDecodeError") \* line 189 raises
        ELSE OrUnstructured(path, ParseStdout(path, p.stdout))]

Procs ==
    {[started |-> FALSE, returncode |-> 0, decodes |-> TRUE, stdout |-> <<>>]}
    \cup {[started |-> TRUE, returncode |-> rc, decodes |-> TRUE, stdout |-> out] :
             rc \in 0..2, out \in SeqsUpTo(StdoutLines, MaxStdoutLines)}
    \cup {[started |-> TRUE, returncode |-> rc, decodes |-> FALSE, stdout |-> <<>>] :
             rc \in 0..2}

InitTrusted ==
    /\ proc \in Procs
    /\ tn_outcome = NoOutcome
    /\ IdleIndexer /\ IdleCustom /\ IdleReport /\ IdleBatch /\ IdleApi

\* A call of run_trusted_node_validation.
RunTrustedNodeValidation ==
    /\ tn_outcome = NoOutcome
    /\ tn_outcome' = run_trusted_node_validation(Path, proc)
    /\ UNCHANGED <<proc, indexer_vars, custom_vars, report_vars, batch_vars, api_vars>>

NextTrusted == RunTrustedNodeValidation

SpecTrusted == InitTrusted /\ [][NextTrusted]_vars

TnRan == tn_outcome.raised # "not run"

RECURSIVE FilesAdded(_)
FilesAdded(rs) ==
    IF rs = <<>> THEN <<>>
    ELSE (IF Head(rs).errors # <<>> THEN <<Head(rs).file>> ELSE <<>>)
         \o FilesAdded(Tail(rs))

\* files_with_errors after the loop of lines 219-223, a set, and its len.
FilesWithErrors(rs) == {FilesAdded(rs)[k] : k \in 1..Len(FilesAdded(rs))}

\* The count, were files_with_errors a list.
CountFilesWithErrors_list(rs) == Len(FilesAdded(rs))

CountFilesWithErrors(rs) == Cardinality(FilesWithErrors(rs))

\* detailed_errors after the loop of lines 219-223.
RECURSIVE DetailedErrors(_)
DetailedErrors(rs) ==
    IF rs = <<>> THEN <<>>
    ELSE [k \in 1..Len(Head(rs).errors) |->
             [file |-> Head(rs).file, line |-> Head(rs).errors[k].feature,
              error |-> Head(rs).errors[k].error]]
         \o DetailedErrors(Tail(rs))

\* The keys of `grouped` in insertion order (lines 257-259): a dict keeps the
\* order in which its keys were first set.
RECURSIVE FirstOccurrences(_, _)
FirstOccurrences(rows, seen) ==
    IF rows = <<>> THEN <<>>
    ELSE IF Head(rows).file \in seen THEN FirstOccurrences(Tail(rows), seen)
    ELSE <<Head(rows).file>> \o FirstOccurrences(Tail(rows), seen \cup {Head(rows).file})

RECURSIVE RowsOf(_, _)
RowsOf(rows, f) ==
    IF rows = <<>> THEN <<>>
    ELSE (IF Head(rows).file = f
          THEN <<[line |-> Head(rows).line, error |-> Head(rows).error]>> ELSE <<>>)
         \o RowsOf(Tail(rows), f)

\* The detail pages (lines 261-271): one per file of `grouped`.
DetailSections(rows) ==
    LET keys == FirstOccurrences(rows, {}) IN
    [k \in 1..Len(keys) |-> [file |-> keys[k], errors |-> RowsOf(rows, keys[k])]]

write_report_pdf(rs) ==
    [written |-> TRUE,
     total_files |-> Len(rs),                          \* line 233
     files_with_errors |-> CountFilesWithErrors(rs),   \* line 234
     total_errors |-> Len(DetailedErrors(rs)),         \* line 235
     rows |-> DetailedErrors(rs),                      \* lines 250-255
     sections |-> DetailSections(DetailedErrors(rs))]  \* lines 257-271

(***************************************************************************)
(* SpecReport: write_report_pdf on every list of up to MaxResults results  *)
(* over two paths, each with up to MaxFindings findings.                   *)
(***************************************************************************)
ReportPaths == {"a.geojson", "b.json"}

ReportFindings(f) ==
    {Finding(f, LineLabel(1), "Depth cannot be blank", NoArg),
     Finding(f, NALabel, "Unstructured error", NoArg)}

ReportResults ==
    UNION {{[file |-> f, errors |-> es] : es \in SeqsUpTo(ReportFindings(f), MaxFindings)} :
              f \in ReportPaths}

InitReport ==
    /\ results \in SeqsUpTo(ReportResults, MaxResults)
    /\ report = NoReport
    /\ IdleIndexer /\ IdleCustom /\ IdleTrusted /\ IdleBatch /\ IdleApi

\* A call of write_report_pdf.
WriteReportPdf ==
    /\ ~report.written
    /\ report' = write_report_pdf(results)
    /\ UNCHANGED <<results, indexer_vars, custom_vars, trusted_vars, batch_vars, api_vars>>

NextReport == WriteReportPdf

SpecReport == InitReport /\ [][NextReport]_vars

RECURSIVE SumOfFindingCounts(_)
SumOfFindingCounts(rs) ==
    IF rs = <<>> THEN 0 ELSE Len(Head(rs).errors) + SumOfFindingCounts(Tail(rs))

ResultsWithFindings(rs) == {i \in 1..Len(rs) : rs[i].errors # <<>>}

DistinctPaths(rs) == \A i \in 1..Len(rs) : \A j \in 1..Len(rs) : rs[i].file = rs[j].file => i = j

\* C1, as stated: for every list of results, the same path repeated or not,
\* 'Total validation errors' is the sum of the per-file finding counts and
\* 'Files with errors' is the number of results with a non-empty finding list.
C1_CountsPerResult ==
    report.written =>
        /\ report.total_errors = SumOfFindingCounts(results)
        /\ report.files_with_errors = Cardinality(ResultsWithFindings(results))

\* C1, amended: 'Total validation errors' is the sum of the per-file finding
\* counts, and 'Files with errors' is the number of distinct file paths that
\* have a result with a non-empty finding list: the number of such results
\* when no path is repeated, and less when one is repeated with findings.
C1_CountsPerDistinctFile ==
    report.written =>
        /\ report.total_errors = SumOfFindingCounts(results)
        /\ report.files_with_errors =
              Cardinality({results[i].file : i \in ResultsWithFindings(results)})
        /\ DistinctPaths(results) =>
              report.files_with_errors = Cardinality(ResultsWithFindings(results))
        /\ report.files_with_errors <= Cardinality(ResultsWithFindings(results))

C1_Witness ==
    /\ report.written
    /\ ~DistinctPaths(results)
    /\ Cardinality(ResultsWithFindings(results)) = 2
    /\ report.files_with_errors = 1
    /\ report.total_errors > 2


(***************************************************************************)
(* main_async (validator.py 276-297). An entry of files is a path of the   *)
(* batch with what the environment holds for it: the file on disk and the  *)
(* behaviour of the external process run on it. A task is the coroutine of *)
(* one file: it is suspended at its awaits, and the event loop resumes the *)
(* tasks in any order.                                                     *)
(*   crowbar task:      "pending" -> "indexed" (line 52 returned)          *)
(*                                -> "done" | "raised"                     *)
(*   trusted-node task: "pending" -> "spawned" (line 174 returned)         *)
(*                                -> "done"                                *)
(***************************************************************************)
PathOf(i) == <<"a.geojson", "b.json", "c.xyz", "d.json", "e.json">>[i]

\* The clock of a batch: its files carry no time that is close to now.
BatchClock == [i \in 1..MaxFeatures |-> 0]

NoGeometryFeature ==
    [coords |-> NoCoords("absent"),
     props |-> [depth |-> Null, heading |-> Null, time |-> NoTime("null")]]

PlainFile == [kind |-> "collection", feats |-> <<PlainFeature>>, layout |-> Gaps(1)]

BatchDisk ==
    {OtherFile("unreadable"),
     [kind |-> "text", feats |-> <<>>, layout |-> Gaps(0)],
     PlainFile,
     [kind |-> "collection", feats |-> <<NoGeometryFeature>>, layout |-> Gaps(1)]}

BatchProcs ==
    {[started |-> FALSE, returncode |-> 0, decodes |-> TRUE, stdout |-> <<>>],
     [started |-> TRUE, returncode |-> 0, decodes |-> TRUE, stdout |-> <<>>],
     [started |-> TRUE, returncode |-> 1, decodes |-> TRUE, stdout |-> <<>>],
     [started |-> TRUE, returncode |-> 1, decodes |-> TRUE,
      stdout |-> <<[path |-> TRUE, error |-> TRUE, msg |-> "m1"]>>]}

NewTask == [pc |-> "pending", result |-> NoOutcome]

\* The result of validating entry e by itself (lines 288, 291).
Validate(m, e) ==
    IF m = "trusted-node" THEN run_trusted_node_validation(e.path, e.proc)
    ELSE run_custom_validation(e.path, e.disk, BatchClock)

InitBatch ==
    /\ mode \in {"crowbar", "trusted-node"}
    /\ \E n \in 0..MaxFiles :
          files \in {[i \in 1..n |-> [path |-> PathOf(i), disk |-> d[i], proc |-> p[i]]] :
                        d \in [1..n -> IF mode = "crowbar" THEN BatchDisk
                                       ELSE {PlainFile}],
                        p \in [1..n -> IF mode = "crowbar" THEN {NoProc} ELSE BatchProcs]}
    /\ tasks = <<>>
    /\ completion = <<>>
    /\ all_results = <<>>
    /\ main_pc = "start"
    /\ report = NoReport /\ results = <<>>
    /\ IdleIndexer /\ IdleCustom /\ IdleTrusted /\ IdleApi

batch_rest == <<indexer_vars, custom_vars, trusted_vars, results, api_vars>>

\* Lines 287-294: the coroutines are created and handed to asyncio.gather.
CreateTasks ==
    /\ main_pc = "start"
    /\ tasks' = [i \in 1..Len(files) |-> NewTask]
    /\ main_pc' = "gathering"
    /\ UNCHANGED <<files, mode, completion, all_results, report, batch_rest>>

\* A crowbar task runs to its first await and over it: line 52,
\* extract_feature_line_numbers, which raises when the file cannot be read.
TaskIndexes(i) ==
    /\ main_pc = "gathering" /\ mode = "crowbar"
    /\ tasks[i].pc = "pending"
    /\ LET r == Validate(mode, files[i]) IN
       IF r.raised # "none"
       THEN /\ tasks' = [tasks EXCEPT ![i] = [pc |-> "raised", result |-> r]]
            /\ completion' = Append(completion, i)
       ELSE /\ tasks' = [tasks EXCEPT ![i].pc = "indexed"]
            /\ UNCHANGED completion
    /\ UNCHANGED <<files, mode, all_results, main_pc, report, batch_rest>>

\* A crowbar task reads the file again and evaluates it (lines 53-163).
TaskEvaluates(i) ==
    /\ main_pc = "gathering" /\ mode = "crowbar"
    /\ tasks[i].pc = "indexed"
    /\ tasks' = [tasks EXCEPT ![i] = [pc |-> "done", result |-> Validate(mode, files[i])]]
    /\ completion' = Append(completion, i)
    /\ UNCHANGED <<files, mode, all_results, main_pc, report, batch_rest>>

\* A trusted-node task starts its process (lines 169-176), or fails to and
\* returns the finding of the handler.
TaskSpawns(i) ==
    /\ main_pc = "gathering" /\ mode = "trusted-node"
    /\ tasks[i].pc = "pending"
    /\ IF files[i].proc.started
       THEN /\ tasks' = [tasks EXCEPT ![i].pc = "spawned"]
            /\ UNCHANGED completion
       ELSE /\ tasks' = [tasks EXCEPT ![i] = [pc |-> "done",
                                              result |-> Validate(mode, files[i])]]
            /\ completion' = Append(completion, i)
    /\ UNCHANGED <<files, mode, all_results, main_pc, report, batch_rest>>

\* The process of a trusted-node task exits (lines 177-201).
TaskCommunicates(i) ==
    /\ main_pc = "gathering" /\ mode = "trusted-node"
    /\ tasks[i].pc = "spawned"
    /\ tasks' = [tasks EXCEPT ![i] = [pc |-> "done", result |-> Validate(mode, files[i])]]
    /\ completion' = Append(completion, i)
    /\ UNCHANGED <<files, mode, all_results, main_pc, report, batch_rest>>

\* The results in the order in which the tasks completed, as collecting them
\* with asyncio.as_completed would give them.
Gather_as_completed(ts, order) ==
    [k \in 1..Len(ts) |-> [file |-> ts[order[k]].result.file,
                           errors |-> ts[order[k]].result.errors]]

\* What asyncio.gather returns (line 294): the tasks' results in the order
\* of its arguments, whatever the order of completion.
Gather(ts, order) == [i \in 1..Len(ts) |-> [file |-> ts[i].result.file,
                                            errors |-> ts[i].result.errors]]

\* Every task has returned: gather returns the list (line 294).
GatherReturns ==
    /\ main_pc = "gathering"
    /\ \A i \in 1..Len(tasks) : tasks[i].pc = "done"
    /\ all_results' = Gather(tasks, completion)
    /\ main_pc' = "reporting"
    /\ UNCHANGED <<files, mode, tasks, completion, report, batch_rest>>

\* A task has raised: gather raises its exception in main_async, which has no
\* handler: the run ends without a report.
GatherRaises ==
    /\ main_pc = "gathering"
    /\ \E i \in 1..Len(tasks) : tasks[i].pc = "raised"
    /\ main_pc' = "failed"
    /\ UNCHANGED <<files, mode, tasks, completion, all_results, report, batch_rest>>

\* Line 295: the report is written from all_results.
WriteReport ==
    /\ main_pc = "reporting"
    /\ report' = write_report_pdf(all_results)
    /\ main_pc' = "done"
    /\ UNCHANGED <<files, mode, tasks, completion, all_results, batch_rest>>

NextBatch ==
    \/ CreateTasks
    \/ \E i \in 1..Len(tasks) : TaskIndexes(i)
    \/ \E i \in 1..Len(tasks) : TaskEvaluates(i)
    \/ \E i \in 1..Len(tasks) : TaskSpawns(i)
    \/ \E i \in 1..Len(tasks) : TaskCommunicates(i)
    \/ GatherReturns
    \/ GatherRaises
    \/ WriteReport

SpecBatch == InitBatch /\ [][NextBatch]_vars

\* The results of validating the files one after another, in input order.
SequentialResults ==
    [i \in 1..Len(files) |->
        [file |-> files[i].path, errors |-> Validate(mode, files[i]).errors]]

\* C2: whatever the order in which the tasks complete, the list handed to the
\* report builder is in input file order, and the report is the one obtained
\* by validating the files one after another.
C2_ReportInInputOrder ==
    /\ main_pc \in {"reporting", "done"} => all_results = SequentialResults
    /\ main_pc = "done" => report = write_report_pdf(SequentialResults)

\* The last file completed first, and the two results differ.
C2_Witness ==
    /\ main_pc = "done"
    /\ Len(files) = MaxFiles
    /\ completion[1] = MaxFiles
    /\ Validate(mode, files[1]).errors # Validate(mode, files[MaxFiles]).errors
    /\ Len(report.rows) >= 2

\* C3: no failure of a file's validation leaves run_custom_validation or
\* run_trusted_node_validation as an exception, and none keeps the batch
\* from writing its report.
C3_NoFailurePropagates ==
    /\ \A i \in 1..Len(tasks) : tasks[i].pc # "raised"
    /\ main_pc # "failed"

\* It holds of the trusted-node mode.
NoFailurePropagatesTrusted == mode = "trusted-node" => C3_NoFailurePropagates


(***************************************************************************)
(* validate_file, the /validate endpoint (main.py 21-41). A request is     *)
(*   "new"        received;                                                *)
(*   "copying"    its temporary file exists and is open (line 27);         *)
(*   "validating" the upload is copied, the file closed (lines 28-29), the *)
(*                validation awaited (lines 32-35);                        *)
(*   "validated"  the validation returned and line 36 unlinked the file;   *)
(*   "ok"         the 200 response is returned (line 37);                  *)
(*   "error"      the handler of lines 38-41 returned the 500 response;    *)
(*   "escaped"    an exception left validate_file.                         *)
(* The temporary file of request r is r: NamedTemporaryFile gives each its *)
(* own name. The requests of the server interleave at their awaits.        *)
(***************************************************************************)
InitApi ==
    /\ \E n \in 1..MaxRequests :
          requests \in [1..n -> {[pc |-> "new", mode |-> m] : m \in {"crowbar", "trusted-node"}}]
    /\ tmp_files = {}
    /\ IdleIndexer /\ IdleCustom /\ IdleTrusted /\ IdleReport /\ IdleBatch

api_rest == <<indexer_vars, custom_vars, trusted_vars, report_vars, batch_vars>>

\* Line 27: NamedTemporaryFile(delete=False) creates the file.
CreateTemp(r) ==
    /\ requests[r].pc = "new"
    /\ tmp_files' = tmp_files \cup {r}
    /\ requests' = [requests EXCEPT ![r].pc = "copying"]
    /\ UNCHANGED api_rest

\* Lines 28-29: the upload is copied; leaving the with block closes the file
\* and, delete being False, keeps it.
CopyUpload(r) ==
    /\ requests[r].pc = "copying"
    /\ requests' = [requests EXCEPT ![r].pc = "validating"]
    /\ UNCHANGED <<tmp_files, api_rest>>

\* Line 28 raises (the upload cannot be read, the disk is full): the with
\* block closes the file and the exception leaves validate_file, the try of
\* line 31 not being entered yet.
CopyRaises(r) ==
    /\ requests[r].pc = "copying"
    /\ requests' = [requests EXCEPT ![r].pc = "escaped"]
    /\ UNCHANGED <<tmp_files, api_rest>>

\* `if os.path.exists(tmp_path): os.unlink(tmp_path)` (lines 39-40)
UnlinkIfExists(fs, r) == fs \ {r}

\* Lines 32-36: the validation returns and the file is unlinked.
ValidationReturns(r) ==
    /\ requests[r].pc = "validating"
    /\ tmp_files' = tmp_files \ {r}
    /\ requests' = [requests EXCEPT ![r].pc = "validated"]
    /\ UNCHANGED api_rest

\* Lines 32-35 raise: the handler unlinks the file and answers 500.
ValidationRaises(r) ==
    /\ requests[r].pc = "validating"
    /\ tmp_files' = UnlinkIfExists(tmp_files, r)
    /\ requests' = [requests EXCEPT ![r].pc = "error"]
    /\ UNCHANGED api_rest

\* Line 37: the response is built and returned.
RespondOk(r) ==
    /\ requests[r].pc = "validated"
    /\ requests' = [requests EXCEPT ![r].pc = "ok"]
    /\ UNCHANGED <<tmp_files, api_rest>>

\* Line 37 raises (the result does not serialise): the handler finds no file
\* left and answers 500.
RespondRaises(r) ==
    /\ requests[r].pc = "validated"
    /\ tmp_files' = UnlinkIfExists(tmp_files, r)
    /\ requests' = [requests EXCEPT ![r].pc = "error"]
    /\ UNCHANGED api_rest

NextApi ==
    \/ \E r \in 1..Len(requests) : CreateTemp(r)
    \/ \E r \in 1..Len(requests) : CopyUpload(r)
    \/ \E r \in 1..Len(requests) : CopyRaises(r)
    \/ \E r \in 1..Len(requests) : ValidationReturns(r)
    \/ \E r \in 1..Len(requests) : ValidationRaises(r)
    \/ \E r \in 1..Len(requests) : RespondOk(r)
    \/ \E r \in 1..Len(requests) : RespondRaises(r)

SpecApi == InitApi /\ [][NextApi]_vars

Exited(r) == requests[r].pc \in {"ok", "error", "escaped"}

\* C9: once its temporary file has been created, a request leaves
\* validate_file on no path with the file still on disk: not after a
\* successful validation, not after an exception of the validation or of the
\* response, not after an exception of the copy of the upload.
C9_TempFileDeletedOnEveryExit ==
    \A r \in 1..Len(requests) : Exited(r) => r \notin tmp_files

\* The file is deleted on every exit that passes the try of line 31.
TempFileDeletedPastTheCopy ==
    \A r \in 1..Len(requests) : requests[r].pc \in {"ok", "error"} => r \notin tmp_files

=============================================================================
